---- MODULE Spec2Model ----
(***************************************************************************)
(* repomon: the concurrent commit fetch of internal/git (Monitor).         *)
(*                                                                         *)
(* Monitor.GetRecentCommits starts one goroutine per configured            *)
(* repository, admits at most SemCapacity of them at a time through a      *)
(* buffered channel used as a semaphore, lets each one run getRepoCommits  *)
(* and write its RepoResult into the slot of its own index, and returns    *)
(* the slice after a single WaitGroup join.                                *)
(*                                                                         *)
(* Errors are modelled as chains of messages, outermost first: the empty   *)
(* chain is Go's nil error and fmt.Errorf("msg: %w", err) puts msg in      *)
(* front of err's chain.  Time is counted in whole days.                   *)
(*                                                                         *)
(* The module also covers what surrounds the fetch: the message            *)
(* normalisation getOneLineCommitMessage, the configuration of             *)
(* internal/config (Load, Save, GetRepos, AddRepo, RemoveRepo) and the     *)
(* commands run, add and rm of cmd/repomon that use it.                    *)
(***************************************************************************)
EXTENDS Integers, Sequences, FiniteSets, TLC

VARIABLES
    repos,      \* m.repos: the descriptors, in configured order
    days,       \* m.days: the lookback window
    now,        \* the wall clock read by time.Now()
    cancelled,  \* whether the caller's ctx is done
    mainPc,     \* GetRecentCommits itself: "loop", "wait" or "returned"
    next,       \* number of goroutines the for loop has started
    pc,         \* pc[i]: position of the goroutine of index i
    results,    \* the results slice, one slot per descriptor
    sem,        \* number of tokens held in the channel sem
    wg,         \* the WaitGroup counter
    bar,        \* the progress bar's count
    scratch,    \* scratch[i]: the temp directory of goroutine i
    ops,        \* ops[i]: the file and git operations goroutine i has made
    fetched,    \* fetched[i]: the (commits, err) getRepoCommits returned to i
    cutoffOf,   \* cutoffOf[i]: the cutoff getRepoCommits computed for goroutine i
    tempDir,    \* tempDir[i]: the scratch directory goroutine i holds, 0 for none
    dirs,       \* the scratch directories that exist in the file system
    writers,    \* writers[k]: the goroutines that have written results[k]
    ret,        \* what GetRecentCommits returned
    disk,       \* the configuration file, as last saved
    cfg,        \* the *config.Config the last command or call worked on
    call,       \* the last command or call and what it returned
    message,    \* a commit message
    line        \* what getOneLineCommitMessage made of it

\* The state of the commit fetch.
monitorVars == <<repos, days, now, cancelled, mainPc, next, pc, results, sem, wg,
                 bar, scratch, ops, fetched, cutoffOf, tempDir, dirs, writers, ret>>

\* The state of the command line and the configuration.
cliVars == <<disk, cfg, call>>

\* The state of the message normalisation.
msgVars == <<message, line>>

vars == <<repos, days, now, cancelled, mainPc, next, pc, results, sem, wg,
          bar, scratch, ops, fetched, cutoffOf, tempDir, dirs, writers, ret,
          disk, cfg, call, message, line>>

----------------------------------------------------------------------------
(* Program constants and bounds.                                           *)

\* make(chan struct{}, 10)
SemCapacity == 10

\* Longest descriptor list of the fine-grained specification.
MaxRepos == 2

\* The most descriptors listed after the one a fetch is studied with.
MaxSiblings == 1

\* Longest commit message, in characters.
MaxMsgLen == 4

\* Longest list of repositories the add command is followed to.
MaxGroupLen == 2

\* The most days the wall clock advances while one pass runs.
MaxTicks == 1

\* The admission-gate specification runs SemCapacity + GateExtra goroutines.
GateExtra == 1

\* The reading of the clock when the pass starts, in days.
Now0 == 10

----------------------------------------------------------------------------
(* Errors.                                                                 *)

NoError == <<>>

\* fmt.Errorf("<msg>: %w", err)
Wrap(msg, err) == <<msg>> \o err

\* The errors a clone ends with when ctx is done: exec.CommandContext does
\* not start the command (ctx.Err()), or kills the running git.
CancelCauses == {"context canceled", "signal: killed"}

IsCancellation(err) == err # NoError /\ err[Len(err)] \in CancelCauses

----------------------------------------------------------------------------
(* The environment: what is on disk and at the remotes.  A repository is   *)
(* a record of its HEAD (a reference name, "" when HEAD does not resolve)  *)
(* and its references, each with the commits a walk from it visits, in     *)
(* walk order.                                                             *)

Commit(hash, when) == [Hash |-> hash, Timestamp |-> when]

\* A commit object the walk cannot read.
BrokenCommit == [Hash |-> "broken", Timestamp |-> 0]

MainLine == <<Commit("c3", Now0), Commit("c2", Now0 - 1), Commit("c1", Now0 - 7)>>

DevLine == <<Commit("d1", Now0), Commit("c1", Now0 - 7)>>

AppRepository ==
    [head |-> "refs/heads/main",
     refs |-> [n \in {"refs/heads/main", "refs/heads/dev", "refs/tags/v1"} |->
                  CASE n = "refs/heads/main" -> MainLine
                    [] n = "refs/heads/dev" -> DevLine
                    [] OTHER -> <<Commit("c1", Now0 - 7)>>]]

\* git init without a commit: HEAD names a branch that does not exist.
EmptyRepository == [head |-> "", refs |-> [n \in {} |-> <<>>]]

CorruptRepository ==
    [head |-> "refs/heads/main",
     refs |-> [n \in {"refs/heads/main"} |-> <<Commit("k2", Now0), BrokenCommit>>]]

\* A repository whose newest commits are all older than any window used.
OldRepository ==
    [head |-> "refs/heads/main",
     refs |-> [n \in {"refs/heads/main"} |->
                  <<Commit("o2", Now0 - 3), Commit("o1", Now0 - 9)>>]]

\* A repository on whose tip a change written a week ago was cherry-picked
\* today: the walk visits the pick first, and its author date is the old
\* one.
PickedRepository ==
    [head |-> "refs/heads/main",
     refs |-> [n \in {"refs/heads/main"} |->
                  <<Commit("p2", Now0 - 7), Commit("p1", Now0)>>]]

\* A path taken to exist without asking the file system.
PathExistsUnchecked(path) == TRUE

\* os.Stat(path) finds something.
PathExists(path) ==
    path \in {"/r/app", "/r/empty", "/r/corrupt", "/r/notgit", "/r/old", "/r/picked"}

\* git.PlainOpen(path) succeeds.
IsGitRepo(path) == path \in {"/r/app", "/r/empty", "/r/corrupt", "/r/old", "/r/picked"}

LocalRepository(path) ==
    CASE path = "/r/app" -> AppRepository
      [] path = "/r/corrupt" -> CorruptRepository
      [] path = "/r/old" -> OldRepository
      [] path = "/r/picked" -> PickedRepository
      [] OTHER -> EmptyRepository

\* What git clone of the URL ends with when it is left to run: nil, or the
\* tool's error.
RemoteCloneError(url) ==
    IF url \in {"https://h/app.git", "https://h/corrupt.git", "https://h/empty.git",
                "https://h/exotic.git"}
    THEN NoError
    ELSE <<"exit status 128: fatal: Authentication failed">>

RemoteRepository(url) ==
    CASE url = "https://h/corrupt.git" -> CorruptRepository
      [] url = "https://h/empty.git" -> EmptyRepository
      [] OTHER -> AppRepository

\* git.PlainOpen of a finished clone succeeds: not so for a repository in
\* a format the library cannot read.
CloneOpens(url) == url # "https://h/exotic.git"

----------------------------------------------------------------------------
(* Descriptors (config.Repo).                                              *)

Repo(name, url, path, branch) ==
    [Name |-> name, URL |-> url, Path |-> path, Branch |-> branch]

ZeroRepo == Repo("", "", "", "")

LocalApp == Repo("app", "", "/r/app", "")

RemoteApp == Repo("app-remote", "https://h/app.git", "", "")

RemotePrivate == Repo("private", "https://h/private.git", "", "")

MissingPath == Repo("gone", "", "/missing", "")

NoLocation == Repo("nowhere", "", "", "")

\* The descriptors the concurrent specifications draw from.
Descriptors == {LocalApp, RemoteApp, RemotePrivate, MissingPath, NoLocation}

\* Descriptors that reach the other paths of getRepoCommits.
OnDev == Repo("app-dev", "", "/r/app", "dev")

OnTag == Repo("app-tag", "", "/r/app", "refs/tags/v1")

OnUnknown == Repo("app-nope", "", "/r/app", "nope")

NotGit == Repo("notgit", "", "/r/notgit", "")

EmptyLocal == Repo("empty", "", "/r/empty", "")

CorruptLocal == Repo("corrupt", "", "/r/corrupt", "")

OldLocal == Repo("old", "", "/r/old", "")

PickedLocal == Repo("picked", "", "/r/picked", "")

BothSet == Repo("both", "https://h/app.git", "/missing", "")

RemoteCorrupt == Repo("corrupt-remote", "https://h/corrupt.git", "", "")

RemoteEmpty == Repo("empty-remote", "https://h/empty.git", "", "")

RemoteExotic == Repo("exotic", "https://h/exotic.git", "", "")

RemoteDev == Repo("dev-remote", "https://h/app.git", "", "dev")

RemoteTag == Repo("tag-remote", "https://h/app.git", "", "v1")

RemoteUnknown == Repo("nope-remote", "https://h/app.git", "", "nope")

\* The descriptors a single fetch is studied with.
FetchDescriptors ==
    Descriptors \cup
    {OnDev, OnTag, OnUnknown, NotGit, EmptyLocal, CorruptLocal, OldLocal,
     PickedLocal, BothSet, RemoteCorrupt, RemoteEmpty, RemoteExotic, RemoteDev,
     RemoteTag, RemoteUnknown}

\* The descriptors that run beside the one studied.
Siblings == {LocalApp, RemotePrivate, NotGit}

\* The zero value of RepoResult, as make([]RepoResult, n) fills the slice.
ZeroResult == [Repo |-> ZeroRepo, Commits |-> <<>>, Error |-> NoError]

----------------------------------------------------------------------------
(* getRepoCommits and what it calls, as functions of the descriptor, the   *)
(* state of ctx while the clone runs, and the cutoff.                      *)

Outcome(commits, err) == [Commits |-> commits, Error |-> err]

Failure(err) == Outcome(<<>>, err)

\* plumbing.NewBranchReferenceName(branch)
NewBranchReferenceName(branch) == "refs/heads/" \o branch

\* gitRepo.Reference(name, true) finds the reference.
HasReference(repository, name) == name \in DOMAIN repository.refs

\* A resolution that settles for HEAD when the configured branch is unknown.
resolveReferenceHeadFallback(repository, branch) ==
    IF branch # "" /\ HasReference(repository, NewBranchReferenceName(branch))
    THEN [ref |-> NewBranchReferenceName(branch), err |-> NoError]
    ELSE IF branch # "" /\ HasReference(repository, branch)
         THEN [ref |-> branch, err |-> NoError]
         ELSE IF repository.head # ""
              THEN [ref |-> repository.head, err |-> NoError]
              ELSE [ref |-> "",
                    err |-> Wrap("failed to get HEAD reference",
                                 <<"reference not found">>)]

\* The reference the walk starts from: the branch reference, else the raw
\* name, else an error; HEAD when no branch is configured.
resolveReference(repository, branch) ==
    IF branch # ""
    THEN IF HasReference(repository, NewBranchReferenceName(branch))
         THEN [ref |-> NewBranchReferenceName(branch), err |-> NoError]
         ELSE IF HasReference(repository, branch)
              THEN [ref |-> branch, err |-> NoError]
              ELSE [ref |-> "",
                    err |-> Wrap("failed to resolve branch '" \o branch \o "'",
                                 <<"reference not found">>)]
    ELSE IF repository.head # ""
         THEN [ref |-> repository.head, err |-> NoError]
         ELSE [ref |-> "",
               err |-> Wrap("failed to get HEAD reference", <<"reference not found">>)]

\* time.Now().AddDate(0, 0, -m.days)
Cutoff(clock, lookback) == clock - lookback

\* A comparison that also turns away a commit made exactly at the cutoff.
BeforeCutoffInclusive(c, cutoff) == c.Timestamp <= cutoff

\* c.Author.When.Before(cutoff)
BeforeCutoff(c, cutoff) == c.Timestamp < cutoff

\* commitIter.ForEach with the callback of getRepoCommits: the commits
\* appended so far and the error that ended the iteration.
RECURSIVE forEach(_, _, _)
forEach(history, cutoff, acc) ==
    IF history = <<>>
    THEN Outcome(acc, NoError)
    ELSE IF Head(history) = BrokenCommit
         THEN Outcome(acc, <<"object not found">>)
         ELSE IF BeforeCutoff(Head(history), cutoff)
              THEN Outcome(acc, <<"stop iteration">>)
              ELSE forEach(Tail(history), cutoff, Append(acc, Head(history)))

\* gitRepo.Log(&git.LogOptions{From: ref.Hash(), Order: LogOrderCommitterTime}):
\* the commits reachable from the reference, in the order the iterator
\* yields them.
Log(repository, ref) == repository.refs[ref]

\* A walk that hands back what it had gathered along with the error.
walkRepositoryKeepsPartial(repository, branch, cutoff) ==
    LET r == resolveReference(repository, branch) IN
    IF r.err # NoError
    THEN Failure(r.err)
    ELSE LET it == forEach(Log(repository, r.ref), cutoff, <<>>) IN
         IF it.Error # NoError /\ it.Error # <<"stop iteration">>
         THEN Outcome(it.Commits, Wrap("failed to iterate commits", it.Error))
         ELSE Outcome(it.Commits, NoError)

\* A walk that reports a window without commits as an error.
walkRepositoryErrorsOnEmpty(repository, branch, cutoff) ==
    LET r == resolveReference(repository, branch) IN
    IF r.err # NoError
    THEN Failure(r.err)
    ELSE LET it == forEach(Log(repository, r.ref), cutoff, <<>>) IN
         IF it.Error # NoError /\ it.Error # <<"stop iteration">>
         THEN Failure(Wrap("failed to iterate commits", it.Error))
         ELSE IF it.Commits = <<>>
              THEN Failure(<<"no commits found">>)
              ELSE Outcome(it.Commits, NoError)

\* getRepoCommits from the reference resolution to its return.
walkRepository(repository, branch, cutoff) ==
    LET r == resolveReference(repository, branch) IN
    IF r.err # NoError
    THEN Failure(r.err)
    ELSE LET it == forEach(Log(repository, r.ref), cutoff, <<>>) IN
         IF it.Error # NoError /\ it.Error # <<"stop iteration">>
         THEN Failure(Wrap("failed to iterate commits", it.Error))
         ELSE Outcome(it.Commits, NoError)

\* The operation op is among those of the sequence made.
Did(made, op) == \E k \in 1 .. Len(made) : made[k] = op

\* The operations of getRepoCommits from the reference resolution on.
walkOps(repository, branch) ==
    LET r == resolveReference(repository, branch)
        lookups == IF branch = ""
                   THEN <<"Head">>
                   ELSE IF HasReference(repository, NewBranchReferenceName(branch))
                        THEN <<"Reference">>
                        ELSE <<"Reference", "Reference">>
    IN  IF r.err # NoError THEN lookups ELSE lookups \o <<"Log", "ForEach">>

\* RealGitCloner.Clone: exec.CommandContext(ctx, "git", "clone", ...).
\* ctxDone: ctx is done before git has finished; cause: how the command
\* then ends.  (--branch takes the name of a branch or of a tag.)
Clone(url, branch, ctxDone, cause) ==
    IF ctxDone
    THEN Wrap("git clone failed", <<cause>>)
    ELSE IF RemoteCloneError(url) # NoError
         THEN Wrap("git clone failed", RemoteCloneError(url))
         ELSE IF /\ branch # ""
                 /\ ~HasReference(RemoteRepository(url), NewBranchReferenceName(branch))
                 /\ ~HasReference(RemoteRepository(url), "refs/tags/" \o branch)
              THEN Wrap("git clone failed",
                        <<"exit status 128: fatal: Remote branch not found">>)
              ELSE NoError

\* The repository git clone leaves in the scratch directory: the remote's
\* references, or with --branch the one branch, or the tag checked out
\* with a detached HEAD.
ClonedRepository(url, branch) ==
    IF branch = ""
    THEN RemoteRepository(url)
    ELSE IF HasReference(RemoteRepository(url), NewBranchReferenceName(branch))
         THEN [head |-> NewBranchReferenceName(branch),
               refs |-> [n \in {NewBranchReferenceName(branch)} |->
                            RemoteRepository(url).refs[n]]]
         ELSE [head |-> "HEAD",
               refs |-> [n \in {"HEAD"} |->
                            RemoteRepository(url).refs["refs/tags/" \o branch]]]

\* A cloneRemoteRepo that reports a failed clone in its own words only.
cloneRemoteRepoOpaque(url, branch, ctxDone, cause) ==
    IF Clone(url, branch, ctxDone, cause) # NoError
    THEN <<"git clone failed">>
    ELSE IF ~CloneOpens(url)
         THEN Wrap("failed to open cloned repository", <<"repository does not exist">>)
         ELSE NoError

\* cloneRemoteRepo: nil, or the error it returns after removing the
\* scratch directory.  (os.MkdirTemp is taken to succeed.)
cloneRemoteRepo(url, branch, ctxDone, cause) ==
    LET err == Clone(url, branch, ctxDone, cause) IN
    IF err # NoError
    THEN Wrap("git clone failed", err)
    ELSE IF ~CloneOpens(url)
         THEN Wrap("failed to open cloned repository", <<"repository does not exist">>)
         ELSE NoError

\* The operations of cloneRemoteRepo.
cloneOps(url, branch, ctxDone, cause) ==
    IF Clone(url, branch, ctxDone, cause) # NoError
    THEN <<"MkdirTemp", "Clone", "RemoveAll">>
    ELSE IF ~CloneOpens(url)
         THEN <<"MkdirTemp", "Clone", "PlainOpen", "RemoveAll">>
         ELSE <<"MkdirTemp", "Clone", "PlainOpen">>

\* The scratch directory when cloneRemoteRepo returns err.
scratchAfterClone(err) == IF err = NoError THEN "exists" ELSE "removed"

\* A removal written at the end of getRepoCommits, which an early return
\* skips.
scratchAfterWalkOnSuccess(dir, out) ==
    IF dir = "exists" /\ out.Error = NoError THEN "removed" ELSE dir

\* defer os.RemoveAll(tempDir): the scratch directory when getRepoCommits
\* returns out.
scratchAfterWalk(dir, out) == IF dir = "exists" THEN "removed" ELSE dir

\* A choice of source that prefers the local path when both are set.
IsRemotePathFirst(repo) == repo.URL # "" /\ repo.Path = ""

\* if repo.URL != ""
IsRemote(repo) == repo.URL # ""

\* An else branch taken without looking at the path.
HasPathAlways(repo) == TRUE

\* else if repo.Path != ""
HasPath(repo) == repo.Path # ""

\* getRepoCommits for a descriptor with a URL, after a successful clone.
walkClone(repo, cutoff) ==
    walkRepository(ClonedRepository(repo.URL, repo.Branch), repo.Branch, cutoff)

\* getRepoCommits for a descriptor without a URL.
fetchLocal(repo, cutoff) ==
    IF HasPath(repo)
    THEN IF ~PathExists(repo.Path)
         THEN Failure(<<"repository path does not exist: " \o repo.Path>>)
         ELSE IF ~IsGitRepo(repo.Path)
              THEN Failure(Wrap("failed to open git repository",
                                <<"repository does not exist">>))
              ELSE walkRepository(LocalRepository(repo.Path), repo.Branch, cutoff)
    ELSE Failure(<<"repository configuration must specify either 'path' or 'url'">>)

\* A getRepoCommits that defers os.RemoveAll of the directory it has opened,
\* the local path included.
localOpsRemoveOpened(repo) ==
    IF HasPath(repo)
    THEN IF ~PathExists(repo.Path)
         THEN <<"Stat">>
         ELSE IF ~IsGitRepo(repo.Path)
              THEN <<"Stat", "PlainOpen">>
              ELSE <<"Stat", "PlainOpen">>
                       \o walkOps(LocalRepository(repo.Path), repo.Branch)
                       \o <<"RemoveAll">>
    ELSE <<>>

\* The operations of getRepoCommits for a descriptor without a URL.
localOps(repo) ==
    IF HasPath(repo)
    THEN IF ~PathExists(repo.Path)
         THEN <<"Stat">>
         ELSE IF ~IsGitRepo(repo.Path)
              THEN <<"Stat", "PlainOpen">>
              ELSE <<"Stat", "PlainOpen">>
                       \o walkOps(LocalRepository(repo.Path), repo.Branch)
    ELSE <<>>

\* getRepoCommits as a whole.
getRepoCommits(repo, ctxDone, cause, cutoff) ==
    IF IsRemote(repo)
    THEN LET err == cloneRemoteRepo(repo.URL, repo.Branch, ctxDone, cause) IN
         IF err # NoError
         THEN Failure(Wrap("failed to clone remote repository", err))
         ELSE walkClone(repo, cutoff)
    ELSE fetchLocal(repo, cutoff)

\* The operations of getRepoCommits as a whole.
fetchOps(repo, ctxDone, cause) ==
    IF IsRemote(repo)
    THEN IF cloneRemoteRepo(repo.URL, repo.Branch, ctxDone, cause) # NoError
         THEN cloneOps(repo.URL, repo.Branch, ctxDone, cause)
         ELSE cloneOps(repo.URL, repo.Branch, ctxDone, cause)
                  \o walkOps(ClonedRepository(repo.URL, repo.Branch), repo.Branch)
                  \o <<"RemoveAll">>
    ELSE localOps(repo)

\* A result that carries nothing but the error when the fetch failed.
RepoResultErrorOnly(repo, out) ==
    IF out.Error # NoError
    THEN [Repo |-> ZeroRepo, Commits |-> <<>>, Error |-> out.Error]
    ELSE [Repo |-> repo, Commits |-> out.Commits, Error |-> NoError]

\* The RepoResult the goroutine builds from what getRepoCommits returned.
RepoResult(repo, out) ==
    IF out.Error # NoError
    THEN [Repo |-> repo, Commits |-> <<>>, Error |-> out.Error]
    ELSE [Repo |-> repo, Commits |-> out.Commits, Error |-> NoError]

----------------------------------------------------------------------------
(* Monitor.GetRecentCommits.                                               *)

Tasks == 1 .. Len(repos)

SeqsUpTo(S, n) == UNION {[1 .. k -> S] : k \in 0 .. n}

\* A Config without groups, as Load returns for an empty file.
EmptyConfig == [Days |-> 1, Groups |-> [g \in {} |-> <<>>]]

NoCall == [op |-> "none", arg |-> <<>>, out |-> <<>>, saved |-> FALSE, err |-> NoError]

\* No command has run.
CliIdle == disk = EmptyConfig /\ cfg = EmptyConfig /\ call = NoCall

\* No message has been looked at.
MsgIdle == message = <<>> /\ line = <<>>

\* The state in which GetRecentCommits starts its loop over list: the
\* slice of zero results, an empty channel, a zero WaitGroup and bar.
MonitorEntry(list) ==
    /\ repos = list
    /\ days = 1
    /\ now = Now0
    /\ cancelled = FALSE
    /\ mainPc = IF Len(list) = 0 THEN "wait" ELSE "loop"
    /\ next = 0
    /\ pc = [i \in 1 .. Len(list) |-> "idle"]
    /\ results = [i \in 1 .. Len(list) |-> ZeroResult]
    /\ sem = 0
    /\ wg = 0
    /\ bar = 0
    /\ scratch = [i \in 1 .. Len(list) |-> "none"]
    /\ ops = [i \in 1 .. Len(list) |-> <<>>]
    /\ fetched = [i \in 1 .. Len(list) |-> Outcome(<<>>, NoError)]
    /\ cutoffOf = [i \in 1 .. Len(list) |-> <<>>]
    /\ tempDir = [i \in 1 .. Len(list) |-> 0]
    /\ dirs = {}
    /\ writers = [i \in 1 .. Len(list) |-> <<>>]
    /\ ret = [results |-> <<>>, err |-> NoError]

\* GetRecentCommits starts; no command line and no message are in play.
Entry(list) == MonitorEntry(list) /\ CliIdle /\ MsgIdle

Init == \E list \in SeqsUpTo(Descriptors, MaxRepos) : Entry(list)

\* A send that never blocks, as on a channel made without a capacity check.
CanAcquireAlways == TRUE

\* A send on a channel made without a buffer: no receiver is ever ready.
CanAcquireUnbuffered == FALSE

\* sem <- struct{}{} goes through when the channel has room.
CanAcquire == sem < SemCapacity

\* A release that only the success path reaches (no defer).
SemAfterReleaseOnSuccess(i) == IF results[i].Error # NoError THEN sem ELSE sem - 1

\* <-sem, deferred: the channel after goroutine i has released its slot.
SemAfterRelease(i) == sem - 1

\* Results appended in the order the fetches complete.
StoreIndexAppend(i) ==
    Cardinality({j \in 1 .. Len(repos) :
                    pc[j] \in {"stored", "released", "advanced", "done"}}) + 1

\* One slot that every goroutine writes.
StoreIndexShared(i) == 1

\* The slot the goroutine started for index i writes: results[index].
StoreIndex(i) == i

\* A shared ctx that the first failed fetch cancels (errgroup.WithContext).
FetchCtxDoneOnSiblingError(i) ==
    cancelled \/ \E j \in 1 .. Len(repos) : results[j].Error # NoError

\* The ctx getRepoCommits is given is the caller's.
FetchCtxDone(i) == cancelled

\* A return that does not wait for the goroutines.
JoinReadyAtOnce == TRUE

\* wg.Wait() returns when the counter is zero.
JoinReady == wg = 0

\* A return that reports the first failed repository as its own error.
ReturnedErrorFirstFailure ==
    IF \E i \in 1 .. Len(repos) : results[i].Error # NoError
    THEN results[CHOOSE i \in 1 .. Len(repos) : results[i].Error # NoError].Error
    ELSE NoError

\* return results, nil
ReturnedError == NoError

\* A scratch directory named after the URL alone: the index of the first
\* descriptor with that URL.
MkdirTempByURL(i) ==
    {CHOOSE j \in 1 .. Len(repos) :
        /\ repos[j].URL = repos[i].URL
        /\ \A k \in 1 .. j - 1 : repos[k].URL # repos[i].URL}

\* os.MkdirTemp("", "repomon-*"): the names it can give the new directory,
\* none of which exists yet.  (It is taken to succeed.)
MkdirTemp(i) == (1 .. Len(repos)) \ dirs

\* A bar that counts the successful fetches only.
BarAfterAddOnSuccess(i) == IF results[i].Error # NoError THEN bar ELSE bar + 1

\* bar.Add(1)
BarAfterAdd(i) == bar + 1

\* The caller cancels ctx.
Cancel ==
    /\ mainPc # "returned"
    /\ ~cancelled
    /\ cancelled' = TRUE
    /\ UNCHANGED <<repos, days, now, mainPc, next, pc, results, sem, wg, bar,
                   scratch, ops, fetched, ret>>
    /\ UNCHANGED <<cutoffOf, tempDir, dirs, writers, cliVars, msgVars>>

\* One iteration of the for loop: wg.Add(1) and the go statement.
Spawn ==
    /\ mainPc = "loop"
    /\ next < Len(repos)
    /\ wg' = wg + 1
    /\ next' = next + 1
    /\ pc' = [pc EXCEPT ![next + 1] = "queued"]
    /\ mainPc' = IF next + 1 = Len(repos) THEN "wait" ELSE "loop"
    /\ UNCHANGED <<repos, days, now, cancelled, results, sem, bar, scratch, ops,
                   fetched, ret>>
    /\ UNCHANGED <<cutoffOf, tempDir, dirs, writers, cliVars, msgVars>>

\* The goroutine takes a slot and enters getRepoCommits.
Acquire(i) ==
    /\ pc[i] = "queued"
    /\ CanAcquire
    /\ sem' = sem + 1
    /\ pc' = [pc EXCEPT ![i] = "fetching"]
    /\ UNCHANGED <<repos, days, now, cancelled, mainPc, next, results, wg, bar,
                   scratch, ops, fetched, ret>>
    /\ UNCHANGED <<cutoffOf, tempDir, dirs, writers, cliVars, msgVars>>

\* getRepoCommits of a descriptor with a URL, up to the return of
\* cloneRemoteRepo: the scratch directory is made and, on an error, removed
\* again, the error returned and stored in the goroutine's slot.
CloneStep(i) ==
    /\ pc[i] = "fetching"
    /\ IsRemote(repos[i])
    /\ \E cause \in IF FetchCtxDone(i) THEN CancelCauses ELSE {"context canceled"} :
         LET err == cloneRemoteRepo(repos[i].URL, repos[i].Branch,
                                    FetchCtxDone(i), cause)
             out == Failure(Wrap("failed to clone remote repository", err))
         IN  /\ scratch' = [scratch EXCEPT ![i] = scratchAfterClone(err)]
             /\ ops' = [ops EXCEPT ![i] =
                   cloneOps(repos[i].URL, repos[i].Branch, FetchCtxDone(i), cause)]
             /\ \E dir \in MkdirTemp(i) :
                   IF err = NoError
                   THEN /\ tempDir' = [tempDir EXCEPT ![i] = dir]
                        /\ dirs' = dirs \cup {dir}
                   ELSE /\ tempDir' = tempDir
                        /\ dirs' = (dirs \cup {dir}) \ {dir}
             /\ IF err = NoError
                THEN /\ pc' = [pc EXCEPT ![i] = "cloned"]
                     /\ UNCHANGED <<results, fetched, writers>>
                ELSE /\ pc' = [pc EXCEPT ![i] = "stored"]
                     /\ fetched' = [fetched EXCEPT ![i] = out]
                     /\ results' = [results EXCEPT ![StoreIndex(i)] =
                           RepoResult(repos[i], out)]
                     /\ writers' = [writers EXCEPT ![StoreIndex(i)] = Append(@, i)]
    /\ UNCHANGED <<repos, days, now, cancelled, mainPc, next, sem, wg, bar, ret>>
    /\ UNCHANGED <<cutoffOf, cliVars, msgVars>>

\* The rest of getRepoCommits: the local path opened, or the clone read;
\* the reference resolved and the commits walked; the scratch directory
\* removed by the deferred os.RemoveAll; the result stored.
WalkStep(i) ==
    /\ \/ pc[i] = "cloned"
       \/ pc[i] = "fetching" /\ ~IsRemote(repos[i])
    /\ LET out == IF IsRemote(repos[i])
                  THEN walkClone(repos[i], Cutoff(now, days))
                  ELSE fetchLocal(repos[i], Cutoff(now, days))
           walks == IF IsRemote(repos[i])
                    THEN Did(walkOps(ClonedRepository(repos[i].URL, repos[i].Branch),
                                     repos[i].Branch), "ForEach")
                    ELSE Did(localOps(repos[i]), "ForEach")
       IN  /\ fetched' = [fetched EXCEPT ![i] = out]
           /\ results' = [results EXCEPT ![StoreIndex(i)] = RepoResult(repos[i], out)]
           /\ writers' = [writers EXCEPT ![StoreIndex(i)] = Append(@, i)]
           /\ cutoffOf' = [cutoffOf EXCEPT ![i] =
                 IF walks THEN <<Cutoff(now, days)>> ELSE @]
           /\ scratch' = [scratch EXCEPT ![i] = scratchAfterWalk(@, out)]
           /\ dirs' = IF scratchAfterWalk(scratch[i], out) # scratch[i]
                      THEN dirs \ {tempDir[i]} ELSE dirs
           /\ tempDir' = [tempDir EXCEPT ![i] = 0]
           /\ ops' = [ops EXCEPT ![i] =
                 IF IsRemote(repos[i])
                 THEN @ \o walkOps(ClonedRepository(repos[i].URL, repos[i].Branch),
                                   repos[i].Branch)
                        \o (IF scratchAfterWalk(scratch[i], out) # scratch[i]
                            THEN <<"RemoveAll">> ELSE <<>>)
                 ELSE localOps(repos[i])]
    /\ pc' = [pc EXCEPT ![i] = "stored"]
    /\ UNCHANGED <<repos, days, now, cancelled, mainPc, next, sem, wg, bar, ret>>
    /\ UNCHANGED <<cliVars, msgVars>>

\* Deferred calls run in the order of their defer statements.
DeferredInOrder == <<"done", "advanced", "released">>

\* The deferred calls of the goroutine in the order they run, the reverse
\* of the order of the defer statements: <-sem ("released"), bar.Add(1)
\* ("advanced"), wg.Done() ("done").
Deferred == <<"released", "advanced", "done">>

\* Where the goroutine stands when the deferred call named step is the
\* next to run: after the one before it, or after the store of the result.
Prior(step) ==
    LET k == CHOOSE n \in 1 .. Len(Deferred) : Deferred[n] = step
    IN  IF k = 1 THEN "stored" ELSE Deferred[k - 1]

\* defer func() { <-sem }()
Release(i) ==
    /\ pc[i] = Prior("released")
    /\ sem' = SemAfterRelease(i)
    /\ pc' = [pc EXCEPT ![i] = "released"]
    /\ UNCHANGED <<repos, days, now, cancelled, mainPc, next, results, wg, bar,
                   scratch, ops, fetched, ret>>
    /\ UNCHANGED <<cutoffOf, tempDir, dirs, writers, cliVars, msgVars>>

\* defer bar.Add(1)
BarAdd(i) ==
    /\ pc[i] = Prior("advanced")
    /\ bar' = BarAfterAdd(i)
    /\ pc' = [pc EXCEPT ![i] = "advanced"]
    /\ UNCHANGED <<repos, days, now, cancelled, mainPc, next, results, sem, wg,
                   scratch, ops, fetched, ret>>
    /\ UNCHANGED <<cutoffOf, tempDir, dirs, writers, cliVars, msgVars>>

\* defer wg.Done()
WgDone(i) ==
    /\ pc[i] = Prior("done")
    /\ wg' = wg - 1
    /\ pc' = [pc EXCEPT ![i] = "done"]
    /\ UNCHANGED <<repos, days, now, cancelled, mainPc, next, results, sem, bar,
                   scratch, ops, fetched, ret>>
    /\ UNCHANGED <<cutoffOf, tempDir, dirs, writers, cliVars, msgVars>>

\* wg.Wait(), bar.Finish() and the return.
Return ==
    /\ mainPc = "wait"
    /\ JoinReady
    /\ mainPc' = "returned"
    /\ ret' = [results |-> results, err |-> ReturnedError]
    /\ UNCHANGED <<repos, days, now, cancelled, next, pc, results, sem, wg, bar,
                   scratch, ops, fetched>>
    /\ UNCHANGED <<cutoffOf, tempDir, dirs, writers, cliVars, msgVars>>

Next ==
    \/ Cancel
    \/ Spawn
    \/ \E i \in Tasks : Acquire(i)
    \/ \E i \in Tasks : CloneStep(i)
    \/ \E i \in Tasks : WalkStep(i)
    \/ \E i \in Tasks : Release(i)
    \/ \E i \in Tasks : BarAdd(i)
    \/ \E i \in Tasks : WgDone(i)
    \/ Return

Spec == Init /\ [][Next]_vars

\* The wall clock moves on while the goroutines wait and fetch.
Tick ==
    /\ mainPc # "returned"
    /\ now < Now0 + MaxTicks
    /\ now' = now + 1
    /\ UNCHANGED <<repos, days, cancelled, mainPc, next, pc, results, sem, wg, bar,
                   scratch, ops, fetched, cutoffOf, tempDir, dirs, writers, ret>>
    /\ UNCHANGED <<cliVars, msgVars>>

NextClock == Next \/ Tick

\* GetRecentCommits with time passing.
SpecClock == Init /\ [][NextClock]_vars

\* GetRecentCommits on a list that starts with any one of the descriptors
\* of every kind, followed by siblings.
InitFetch ==
    \E repo \in FetchDescriptors, rest \in SeqsUpTo(Siblings, MaxSiblings) :
        Entry(<<repo>> \o rest)

SpecFetch == InitFetch /\ [][Next]_vars

----------------------------------------------------------------------------
(* The admission gate with more goroutines than slots.  Here an admitted   *)
(* goroutine runs from getRepoCommits to wg.Done() in one step: after      *)
(* getRepoCommits has read ctx, what follows (the write of the             *)
(* goroutine's own slot, the release, bar.Add and wg.Done) neither waits   *)
(* for nor disables a step of another goroutine.                           *)

GateOrder == <<LocalApp, RemoteApp, MissingPath, RemotePrivate, NoLocation>>

GateList == [i \in 1 .. SemCapacity + GateExtra |-> GateOrder[((i - 1) % 5) + 1]]

InitGate == \E n \in {0, SemCapacity + GateExtra} : Entry(SubSeq(GateList, 1, n))

\* The goroutine body from the call of getRepoCommits to the last
\* deferred call.
RunTask(i) ==
    /\ pc[i] = "fetching"
    /\ \E cause \in IF FetchCtxDone(i) /\ IsRemote(repos[i])
                    THEN CancelCauses ELSE {"context canceled"} :
         LET out == getRepoCommits(repos[i], FetchCtxDone(i), cause, Cutoff(now, days))
         IN  /\ fetched' = [fetched EXCEPT ![i] = out]
             /\ results' = [results EXCEPT ![StoreIndex(i)] = RepoResult(repos[i], out)]
             /\ ops' = [ops EXCEPT ![i] = fetchOps(repos[i], FetchCtxDone(i), cause)]
             /\ writers' = [writers EXCEPT ![StoreIndex(i)] = Append(@, i)]
             /\ cutoffOf' = [cutoffOf EXCEPT ![i] =
                   IF Did(fetchOps(repos[i], FetchCtxDone(i), cause), "ForEach")
                   THEN <<Cutoff(now, days)>> ELSE @]
    /\ scratch' = [scratch EXCEPT ![i] = IF IsRemote(repos[i]) THEN "removed" ELSE @]
    /\ sem' = SemAfterRelease(i)
    /\ bar' = BarAfterAdd(i)
    /\ wg' = wg - 1
    /\ pc' = [pc EXCEPT ![i] = "done"]
    /\ UNCHANGED <<repos, days, now, cancelled, mainPc, next, ret>>
    /\ UNCHANGED <<tempDir, dirs, cliVars, msgVars>>

NextGate ==
    \/ Spawn
    \/ \E i \in Tasks : Acquire(i)
    \/ \E i \in Tasks : RunTask(i)
    \/ Return

SpecGate == InitGate /\ [][NextGate]_vars

\* Every runnable goroutine is eventually scheduled, so the program does
\* not stop while a step is possible.
FairGate == SpecGate /\ WF_vars(NextGate)

----------------------------------------------------------------------------
(* Properties.                                                             *)

Returned == mainPc = "returned"

\* The goroutines that hold an admission slot.
Holding == {i \in Tasks : pc[i] \in {"fetching", "cloned", "stored"}}

\* The goroutines whose slot of results has been written.
Stored == {i \in Tasks : pc[i] \in {"stored", "released", "advanced", "done"}}

\* What the fetch of one descriptor produces when ctx is never done.
Undisturbed(repo) ==
    RepoResult(repo, getRepoCommits(repo, FALSE, "context canceled", Cutoff(now, days)))

\* What the fetch of one descriptor can produce, given whether ctx has been
\* cancelled so far.
OwnResults(repo, ctxDone) ==
    {RepoResult(repo, getRepoCommits(repo, d, cause, Cutoff(now, days))) :
        d \in (IF ctxDone THEN BOOLEAN ELSE {FALSE}), cause \in CancelCauses}

\* C1: GetRecentCommits returns exactly one result per descriptor, and the
\* i-th result names the i-th descriptor, whether its fetch succeeded or
\* failed, for an empty list and for more descriptors than slots.
C1_OneResultPerDescriptor ==
    Returned =>
        /\ Len(ret.results) = Len(repos)
        /\ \A i \in 1 .. Len(repos) : ret.results[i].Repo = repos[i]

C1_Witness ==
    /\ Returned
    /\ Len(repos) > SemCapacity
    /\ \E i \in Tasks : ret.results[i].Error # NoError
    /\ \E i \in Tasks : ret.results[i].Error = NoError

\* C2: at no time are more than SemCapacity goroutines past the admission
\* gate and in getRepoCommits, and each of them holds a slot of the channel.
C2_AtMostTenPastGate ==
    /\ Cardinality({i \in Tasks : pc[i] = "fetching"}) <= sem
    /\ sem <= SemCapacity

C2_Witness ==
    /\ Cardinality({i \in Tasks : pc[i] = "fetching"}) = SemCapacity
    /\ \E i \in Tasks : pc[i] = "queued"

\* C3: the error GetRecentCommits returns is nil whatever the repositories
\* did; a repository's failure is found in its own result and nowhere else.
C3_NeverFailsAsAWhole ==
    Returned =>
        /\ ret.err = NoError
        /\ \A i \in Tasks :
             ret.results[i].Error \in {r.Error : r \in OwnResults(repos[i], cancelled)}

C3_Witness ==
    /\ Returned
    /\ \E i \in Tasks : ret.results[i].Error # NoError

\* C4: at every moment the slot of a goroutine that has stored its result
\* holds what the fetch of its own descriptor produces, whatever the other
\* fetches did and whenever they did it, and the slot of a goroutine that
\* has not stored yet is untouched.
C4_FaultIsolation ==
    \A i \in Tasks :
        IF i \in Stored
        THEN results[i] \in OwnResults(repos[i], cancelled)
        ELSE results[i] = ZeroResult

C4_Witness ==
    /\ Returned
    /\ ~cancelled
    /\ \E i, j \in Tasks :
         /\ ret.results[i].Error # NoError
         /\ ret.results[j].Error = NoError
         /\ ret.results[j].Commits = Undisturbed(repos[j]).Commits
         /\ ret.results[j].Commits # <<>>

\* C5: with more goroutines than slots, every goroutine is eventually
\* admitted through the gate and GetRecentCommits eventually returns.
C5_EventuallyReturns ==
    <>(Returned /\ \A i \in Tasks : pc[i] \notin {"idle", "queued"})

C5_Witness ==
    /\ Returned
    /\ Len(repos) > SemCapacity
    /\ \A i \in Tasks : pc[i] = "done"

\* C6: when GetRecentCommits returns, every goroutine has run to its end
\* and every slot of the returned slice has been written by its goroutine.
C6_SingleJoin ==
    Returned =>
        /\ \A i \in Tasks : pc[i] = "done"
        /\ wg = 0
        /\ ret.results = results
        /\ \A i \in Tasks : ret.results[i] # ZeroResult

C6_Witness ==
    /\ Returned
    /\ Len(repos) >= 2

\* C7: the channel holds one token for each goroutine between its
\* acquisition and its release, no more and no fewer, on every path; the
\* number of tokens stays within 0 .. SemCapacity and is 0 at the return.
C7_SlotsReleased ==
    /\ sem = Cardinality(Holding)
    /\ sem >= 0
    /\ sem <= SemCapacity
    /\ Returned => sem = 0

C7_Witness ==
    /\ Returned
    /\ cancelled
    /\ sem = 0
    /\ \E i \in Tasks : IsCancellation(ret.results[i].Error)
    /\ \E i \in Tasks : ret.results[i].Error = NoError

\* C8: once ctx is cancelled, no goroutine that was still waiting to start
\* goes on to begin getRepoCommits.
C8_NoFetchAfterCancel ==
    [][\A i \in Tasks : (cancelled /\ pc[i] = "queued") => pc'[i] # "fetching"]_vars

\* C9: a part of a fetch that begins when ctx is already done does not
\* complete normally: it stores an error, a cancellation-flavoured one
\* unless the descriptor's fetch fails for a reason of its own.
C9_CancelledFetchReportsCancellation ==
    [][\A i \in Tasks :
          (cancelled /\ pc[i] \in {"fetching", "cloned"} /\ pc'[i] = "stored")
              => /\ results'[i].Error # NoError
                 /\ \/ IsCancellation(results'[i].Error)
                    \/ Undisturbed(repos[i]).Error # NoError]_vars

\* C10: when ctx is never cancelled, the list GetRecentCommits returns is
\* a function of the descriptor list alone: in input order, the same for
\* every interleaving and completion order of the goroutines.
C10_InputOrder ==
    (Returned /\ ~cancelled) =>
        ret.results = [i \in 1 .. Len(repos) |-> Undisturbed(repos[i])]

C10_Witness ==
    /\ Returned
    /\ ~cancelled
    /\ Len(repos) >= 2
    /\ repos[1] # repos[2]
    /\ ret.results[1].Error # NoError
    /\ ret.results[2].Commits # <<>>

----------------------------------------------------------------------------
(* Properties of one fetch.                                                *)

ConfigurationError == <<"repository configuration must specify either 'path' or 'url'">>

\* The repository getRepoCommits has open once the source of the
\* descriptor has been cloned or opened.
Opened(repo) ==
    IF repo.URL # ""
    THEN ClonedRepository(repo.URL, repo.Branch)
    ELSE LocalRepository(repo.Path)

\* The fetch of goroutine i got as far as an open repository.
HasOpened(i) ==
    /\ i \in Stored
    /\ "PlainOpen" \in {ops[i][k] : k \in 1 .. Len(ops[i])}
    /\ IF repos[i].URL # "" THEN CloneOpens(repos[i].URL) ELSE IsGitRepo(repos[i].Path)

\* The operations goroutine i has made, as a set.
Attempted(i) == {ops[i][k] : k \in 1 .. Len(ops[i])}

\* C11: a descriptor whose URL and Path are both empty gets the
\* configuration error and no commits, and nothing is cloned, opened or
\* made as a scratch directory for it; the descriptors beside it still get
\* the results of their own fetches.
C11_NoLocationIsConfigurationError ==
    \A i \in Stored :
        (repos[i].URL = "" /\ repos[i].Path = "") =>
            /\ results[i].Error = ConfigurationError
            /\ results[i].Commits = <<>>
            /\ ops[i] = <<>>
            /\ scratch[i] = "none"
            /\ Returned =>
                  \A j \in Tasks \ {i} : ret.results[j] \in OwnResults(repos[j], cancelled)

C11_Witness ==
    /\ Returned
    /\ Len(repos) = 2
    /\ repos[1] = NoLocation
    /\ ret.results[1].Error = ConfigurationError
    /\ ret.results[2].Error = NoError
    /\ ret.results[2].Commits # <<>>

\* C12: a result never carries both an error and commits, neither as
\* getRepoCommits returns it nor as it stands in the returned slice: a walk
\* that fails after it has gathered commits returns none of them.
C12_ErrorMeansNoCommits ==
    /\ \A i \in Tasks : fetched[i].Error # NoError => fetched[i].Commits = <<>>
    /\ \A i \in Tasks : results[i].Error # NoError => results[i].Commits = <<>>
    /\ Returned =>
          \A i \in Tasks : ret.results[i].Error # NoError => ret.results[i].Commits = <<>>

C12_Witness ==
    \E i \in Stored :
        /\ repos[i] = CorruptLocal
        /\ ~BeforeCutoff(Log(CorruptRepository, "refs/heads/main")[1], Cutoff(now, days))
        /\ fetched[i].Error = Wrap("failed to iterate commits", <<"object not found">>)
        /\ results[i].Error = fetched[i].Error

\* The fetch of goroutine i has opened its repository, resolved the
\* reference and walked the commits.
HasWalked(i) == i \in Stored /\ "ForEach" \in Attempted(i)

\* The commits that walk visits, in the order it visits them.
Walked(i) ==
    Log(Opened(repos[i]), resolveReference(Opened(repos[i]), repos[i].Branch).ref)

\* C13: of a successful walk the result holds no commit written before the
\* cutoff (now less the days), holds the visited commits in the order of
\* the walk, newest first, and leaves the walk only at a commit written
\* before the cutoff, so that a commit written exactly at the cutoff is
\* taken.
C13_WindowByAuthorTime ==
    \A i \in Stored :
        (HasWalked(i) /\ results[i].Error = NoError) =>
            LET cs == results[i].Commits
                h == Walked(i)
                cutoff == now - days
            IN  /\ \A k \in 1 .. Len(cs) : cs[k].Timestamp >= cutoff
                /\ Len(cs) <= Len(h)
                /\ \A k \in 1 .. Len(cs) : cs[k] = h[k]
                /\ Len(cs) < Len(h) => h[Len(cs) + 1].Timestamp < cutoff

C13_Witness ==
    \E i \in Stored :
        /\ repos[i] = LocalApp
        /\ results[i].Error = NoError
        /\ Len(results[i].Commits) = 2
        /\ results[i].Commits[2].Timestamp = now - days
        /\ Len(Walked(i)) = 3
        /\ Walked(i)[3].Timestamp < now - days

\* C14: the walk visits the commits in such an order that stopping at the
\* first one written before the cutoff leaves out no commit written inside
\* the window, and that stop is a success, not an error.
C14_StopDropsNoRecentCommit ==
    \A i \in Stored :
        (HasWalked(i) /\ BrokenCommit \notin {Walked(i)[k] : k \in 1 .. Len(Walked(i))}) =>
            /\ results[i].Error = NoError
            /\ \A k \in 1 .. Len(Walked(i)) :
                  Walked(i)[k].Timestamp >= now - days =>
                      \E j \in 1 .. Len(results[i].Commits) :
                          results[i].Commits[j] = Walked(i)[k]

\* C15: when the repository opens and the reference resolves but the walk
\* finds no commit inside the window, the fetch succeeds with no commits.
C15_EmptyWindowIsSuccess ==
    \A i \in Stored :
        (/\ HasWalked(i)
         /\ \A k \in 1 .. Len(Walked(i)) :
               Walked(i)[k] # BrokenCommit /\ Walked(i)[k].Timestamp < now - days) =>
            /\ fetched[i] = Outcome(<<>>, NoError)
            /\ results[i] = [Repo |-> repos[i], Commits |-> <<>>, Error |-> NoError]

C15_Witness ==
    \E i \in Stored :
        /\ repos[i] = OldLocal
        /\ Len(Walked(i)) = 2
        /\ results[i] = [Repo |-> OldLocal, Commits |-> <<>>, Error |-> NoError]

\* How often goroutine i has made the operation op.
Count(i, op) == Cardinality({k \in 1 .. Len(ops[i]) : ops[i][k] = op})

\* C16: for a descriptor with a URL the scratch directory made for the
\* clone is gone when getRepoCommits has returned, whether the clone
\* failed, the clone could not be opened, the reference did not resolve,
\* the walk failed or the fetch succeeded.
C16_ScratchRemovedOnEveryPath ==
    \A i \in Stored :
        repos[i].URL # "" =>
            /\ scratch[i] = "removed"
            /\ Count(i, "MkdirTemp") = 1
            /\ Count(i, "RemoveAll") = 1
            /\ ops[i][Len(ops[i])] = "RemoveAll"

C16_Witness ==
    /\ Returned
    /\ Len(repos) = 2
    /\ repos[1] = RemoteCorrupt
    /\ ret.results[1].Error = Wrap("failed to iterate commits", <<"object not found">>)
    /\ repos[2] = RemotePrivate
    /\ ret.results[2].Error # NoError
    /\ scratch = <<"removed", "removed">>

\* C17: the source is chosen in a fixed order: a descriptor with a URL is
\* cloned and its Path is not looked at; with no URL and a Path the local
\* path is checked and opened and nothing is cloned; with neither the
\* result is the configuration error.
C17_SourceOrder ==
    \A i \in Stored :
        /\ repos[i].URL # "" =>
              /\ ops[i][1] = "MkdirTemp"
              /\ ops[i][2] = "Clone"
              /\ "Stat" \notin Attempted(i)
              /\ results[i].Error # <<"repository path does not exist: " \o repos[i].Path>>
        /\ (repos[i].URL = "" /\ repos[i].Path # "") =>
              /\ ops[i][1] = "Stat"
              /\ Attempted(i) \cap {"MkdirTemp", "Clone", "RemoveAll"} = {}
              /\ scratch[i] = "none"
        /\ (repos[i].URL = "" /\ repos[i].Path = "") =>
              /\ ops[i] = <<>>
              /\ results[i].Error = ConfigurationError

C17_Witness ==
    \E i \in Stored :
        /\ repos[i] = BothSet
        /\ ~PathExists(repos[i].Path)
        /\ "Clone" \in Attempted(i)
        /\ results[i].Error = NoError
        /\ results[i].Commits # <<>>

\* C18: a local path that does not exist gives the error 'repository path
\* does not exist: <path>' and is never opened; a path that exists but
\* holds no git repository gives the error of the open; both give no
\* commits.
C18_LocalPathErrors ==
    \A i \in Stored :
        /\ repos[i] = MissingPath =>
              /\ ops[i] = <<"Stat">>
              /\ results[i].Error = <<"repository path does not exist: " \o repos[i].Path>>
              /\ results[i].Commits = <<>>
        /\ repos[i] = NotGit =>
              /\ ops[i] = <<"Stat", "PlainOpen">>
              /\ results[i].Error =
                    Wrap("failed to open git repository", <<"repository does not exist">>)
              /\ results[i].Commits = <<>>

C18_Witness ==
    /\ Returned
    /\ Len(repos) = 2
    /\ repos[1] = MissingPath
    /\ ret.results[1].Error = <<"repository path does not exist: /missing">>
    /\ repos[2] = NotGit
    /\ ret.results[2].Error[1] = "failed to open git repository"

\* The outcome of the walk of repository from the reference called name.
WalkFrom(repository, name, cutoff) ==
    LET it == forEach(Log(repository, name), cutoff, <<>>) IN
    IF it.Error \in {NoError, <<"stop iteration">>}
    THEN Outcome(it.Commits, NoError)
    ELSE Failure(Wrap("failed to iterate commits", it.Error))

\* C19: with a Branch the walk starts at the branch reference of that
\* name, or failing that at the reference whose full name is the Branch
\* string; with neither the fetch fails with 'failed to resolve branch'
\* and HEAD is not asked for.  Without a Branch the walk starts at HEAD.
\* A failed resolution is the error of that repository alone.
C19_BranchResolution ==
    \A i \in Stored :
        HasOpened(i) =>
            LET repository == Opened(repos[i])
                branch == repos[i].Branch
                named == "refs/heads/" \o branch
                names == DOMAIN repository.refs
                cutoff == now - days
            IN  /\ (branch # "" /\ named \in names) =>
                      fetched[i] = WalkFrom(repository, named, cutoff)
                /\ (branch # "" /\ named \notin names /\ branch \in names) =>
                      fetched[i] = WalkFrom(repository, branch, cutoff)
                /\ (branch # "" /\ named \notin names /\ branch \notin names) =>
                      /\ fetched[i].Error # NoError
                      /\ fetched[i].Error[1] = "failed to resolve branch '" \o branch \o "'"
                      /\ fetched[i].Commits = <<>>
                      /\ "Log" \notin Attempted(i)
                /\ branch # "" => "Head" \notin Attempted(i)
                /\ (branch = "" /\ repository.head # "") =>
                      /\ fetched[i] = WalkFrom(repository, repository.head, cutoff)
                      /\ "Reference" \notin Attempted(i)
                /\ (branch = "" /\ repository.head = "") =>
                      /\ fetched[i].Error # NoError
                      /\ fetched[i].Error[1] = "failed to get HEAD reference"
                      /\ fetched[i].Commits = <<>>
                /\ results[i] = RepoResult(repos[i], fetched[i])
                /\ Returned =>
                      \A j \in Tasks \ {i} :
                          ret.results[j] \in OwnResults(repos[j], cancelled)

C19_Witness ==
    /\ Returned
    /\ Len(repos) = 2
    /\ repos[1] = OnUnknown
    /\ Opened(repos[1]).head # ""
    /\ WalkFrom(Opened(repos[1]), Opened(repos[1]).head, now - days).Commits # <<>>
    /\ ret.results[1].Error[1] = "failed to resolve branch 'nope'"
    /\ ret.results[1].Commits = <<>>
    /\ ret.results[2].Error = NoError
    /\ ret.results[2].Commits # <<>>

\* The errors the clone of the descriptor can end with, given whether ctx
\* has been cancelled so far.
CloneErrors(repo, ctxDone) ==
    {Clone(repo.URL, repo.Branch, d, cause) :
        d \in (IF ctxDone THEN BOOLEAN ELSE {FALSE}), cause \in CancelCauses} \ {NoError}

----------------------------------------------------------------------------
(* Properties of the pass as a whole, continued.                           *)

\* C21: within one pass of GetRecentCommits every fetch that walks commits
\* filters them against one and the same cutoff, whenever it was admitted
\* and however long the fetches before it took.
C21_OneCutoffPerPass ==
    \A i, j \in Tasks :
        (cutoffOf[i] # <<>> /\ cutoffOf[j] # <<>>) => cutoffOf[i] = cutoffOf[j]

----------------------------------------------------------------------------
(* getOneLineCommitMessage.  A string is the sequence of its characters.   *)

\* The characters messages are made of: a letter, the space, the line
\* feed and the carriage return.
Chars == {"a", " ", "\n", "\r"}

\* The characters strings.TrimSpace removes that occur in Chars.
White == {" ", "\n", "\r", "\t"}

\* strings.Split(s, sep) for a separator of one character.
RECURSIVE Split(_, _)
Split(s, sep) ==
    LET at == {k \in 1 .. Len(s) : s[k] = sep} IN
    IF at = {}
    THEN <<s>>
    ELSE LET k == CHOOSE x \in at : \A y \in at : x <= y
         IN  <<SubSeq(s, 1, k - 1)>> \o Split(SubSeq(s, k + 1, Len(s)), sep)

\* strings.TrimSpace(s)
TrimSpace(s) ==
    LET inked == {k \in 1 .. Len(s) : s[k] \notin White} IN
    IF inked = {}
    THEN <<>>
    ELSE SubSeq(s, CHOOSE x \in inked : \A y \in inked : x <= y,
                   CHOOSE x \in inked : \A y \in inked : x >= y)

\* The first line, trimmed, blank or not.
getFirstLineOnly(msg) == TrimSpace(Split(msg, "\n")[1])

\* getOneLineCommitMessage(message)
getOneLineCommitMessage(msg) ==
    LET lines == Split(msg, "\n")
        inked == {k \in 1 .. Len(lines) : TrimSpace(lines[k]) # <<>>}
    IN  IF inked = {}
        THEN TrimSpace(msg)
        ELSE TrimSpace(lines[CHOOSE x \in inked : \A y \in inked : x <= y])

\* The value of line before the function has been applied.
NotYet == <<"not yet">>

InitMessage ==
    /\ MonitorEntry(<<>>)
    /\ CliIdle
    /\ message \in SeqsUpTo(Chars, MaxMsgLen)
    /\ line = NotYet

\* message := getOneLineCommitMessage(c.Message)
Normalize ==
    /\ line = NotYet
    /\ line' = getOneLineCommitMessage(message)
    /\ UNCHANGED <<message, monitorVars, cliVars>>

NextMessage == Normalize

SpecMessage == InitMessage /\ [][NextMessage]_vars

\* C22: getOneLineCommitMessage returns the first line of the message that
\* is not blank, without the whitespace around it; when every line is blank
\* it returns the trimmed whole message, the empty string.
C22_FirstNonBlankLine ==
    line # NotYet =>
        IF \A k \in 1 .. Len(message) : message[k] \in White
        THEN line = <<>>
        ELSE \E i \in 1 .. Len(message) : \E j \in i .. Len(message) :
                /\ line = SubSeq(message, i, j)
                /\ message[i] \notin White
                /\ message[j] \notin White
                /\ \A k \in 1 .. i - 1 : message[k] \in White
                /\ \A k \in i .. j : message[k] # "\n"
                /\ \E e \in j .. Len(message) :
                      /\ \A k \in j + 1 .. e : message[k] \in White \ {"\n"}
                      /\ e = Len(message) \/ message[e + 1] = "\n"

C22_Witness ==
    /\ message = <<" ", "\n", "a", " ">>
    /\ line = <<"a">>

----------------------------------------------------------------------------
(* Properties of the pass as a whole, continued.                           *)

\* The goroutines that have advanced the progress bar.
Advanced == {i \in Tasks : pc[i] \in {"advanced", "done"}}

\* C23: the progress bar only watches: it is advanced once by every
\* goroutine, so that it stands at the number of descriptors when
\* GetRecentCommits returns; a step that advances it changes no result; and
\* the returned results are those of the fetches, in the order of the
\* descriptors.
C23_BarOnlyObserves ==
    /\ [](/\ bar = Cardinality(Advanced)
          /\ Returned =>
                /\ bar = Len(repos)
                /\ Len(ret.results) = Len(repos)
                /\ \A i \in Tasks : ret.results[i] \in OwnResults(repos[i], cancelled))
    /\ [][bar' # bar =>
             /\ bar' = bar + 1
             /\ results' = results
             /\ fetched' = fetched
             /\ ret' = ret]_vars

C23_Witness ==
    /\ Returned
    /\ Len(repos) = 2
    /\ bar = 2
    /\ ret.results[1].Error # NoError
    /\ ret.results[2].Error = NoError
    /\ ret.results[2].Commits # <<>>

----------------------------------------------------------------------------
(* internal/config: the configuration and its repository strings.  A       *)
(* Config is its Days and its Groups, a function from the names of the     *)
(* groups to their lists of repository strings.                            *)

\* The repository strings the commands are tried with.
RepoStrings == {"/w/app", "app", "/r/app#dev"}

\* parseRepoString on each of them: the branch is what follows the last
\* '#'; what comes before it is not a URL and so is the Path, and its last
\* element is the name.
parseRepoString(repoStr) ==
    CASE repoStr = "/w/app" -> Repo("app", "", "/w/app", "")
      [] repoStr = "app" -> Repo("app", "", "app", "")
      [] repoStr = "/r/app#dev" -> Repo("app", "", "/r/app", "dev")

\* The name executeList and RemoveRepo know a repository by.
displayName(repo) ==
    IF repo.Branch # "" THEN repo.Name \o "#" \o repo.Branch ELSE repo.Name

GroupNames == {"default", "work"}

Config(d, groups) == [Days |-> d, Groups |-> groups]

\* The days value of the files the commands start from: negative, absent
\* or zero, one, more.
FileDays == {-1, 0, 3}

NoGroups == [g \in {} |-> <<>>]

OnlyDefault == [g \in {"default"} |-> <<"/w/app", "app">>]

OnlyWork == [g \in {"work"} |-> <<"/r/app#dev">>]

\* The configuration files the commands start from, as yaml.Unmarshal
\* reads them (Days is 0 when the file has no days key).
StartConfigs == {Config(d, g) : d \in FileDays, g \in {NoGroups, OnlyDefault, OnlyWork}}

\* config.Load on a file that exists and parses.
Load(file) ==
    Config(IF file.Days = 0 THEN 1 ELSE file.Days, file.Groups)

\* Config.Save: the file the YAML encoder writes, read back.
Save(c) == Config(c.Days, c.Groups)

\* groups with the list of the group called name replaced.
WithGroup(groups, name, list) ==
    [g \in DOMAIN groups \cup {name} |-> IF g = name THEN list ELSE groups[g]]

\* A GetRepos that knows no fallback.
GetReposNoFallback(c, requested) ==
    IF requested \in DOMAIN c.Groups
    THEN [repos |-> [k \in 1 .. Len(c.Groups[requested]) |->
                        parseRepoString(c.Groups[requested][k])],
          group |-> requested, err |-> NoError]
    ELSE [repos |-> <<>>, group |-> requested,
          err |-> <<"group '" \o requested \o "' not found">>]

\* Config.GetRepos(requestedGroupName)
GetRepos(c, requested) ==
    LET effective == IF requested \in DOMAIN c.Groups THEN requested ELSE "default" IN
    IF effective \notin DOMAIN c.Groups
    THEN [repos |-> <<>>, group |-> effective,
          err |-> <<"no default group found in configuration">>]
    ELSE [repos |-> [k \in 1 .. Len(c.Groups[effective]) |->
                        parseRepoString(c.Groups[effective][k])],
          group |-> effective, err |-> NoError]

\* The strings of the group, none when there is no such group.
ReposOf(c, name) == IF name \in DOMAIN c.Groups THEN c.Groups[name] ELSE <<>>

Has(list, x) == \E k \in 1 .. Len(list) : list[k] = x

\* An AddRepo that appends without looking.
AddRepoUnchecked(c, repoStr, name) ==
    [cfg |-> Config(c.Days, WithGroup(c.Groups, name, Append(ReposOf(c, name), repoStr))),
     err |-> NoError]

\* An AddRepo that looks for the string in the default group, whatever the
\* group it adds to.
AddRepoChecksDefault(c, repoStr, name) ==
    IF Has(ReposOf(c, "default"), repoStr)
    THEN [cfg |-> c,
          err |-> <<"repository '" \o repoStr \o "' already exists in group '"
                       \o name \o "'">>]
    ELSE [cfg |-> Config(c.Days, WithGroup(c.Groups, name, Append(ReposOf(c, name), repoStr))),
          err |-> NoError]

\* Config.AddRepo(repoStr, groupName): the configuration afterwards and
\* the error.
AddRepo(c, repoStr, name) ==
    IF Has(ReposOf(c, name), repoStr)
    THEN [cfg |-> c,
          err |-> <<"repository '" \o repoStr \o "' already exists in group '"
                       \o name \o "'">>]
    ELSE [cfg |-> Config(c.Days, WithGroup(c.Groups, name, Append(ReposOf(c, name), repoStr))),
          err |-> NoError]

RemoveAt(list, i) == SubSeq(list, 1, i - 1) \o SubSeq(list, i + 1, Len(list))

First(S) == CHOOSE x \in S : \A y \in S : x <= y

\* The repository string matches the identifier by short name or by
\* name#branch.
MatchesByName(repoStr, identifier) ==
    \/ parseRepoString(repoStr).Name = identifier
    \/ displayName(parseRepoString(repoStr)) = identifier

\* A RemoveRepo that takes the first entry that matches in any way.
RemoveRepoFirstMatch(c, identifier, name) ==
    LET list == ReposOf(c, name)
        any == {k \in 1 .. Len(list) :
                   list[k] = identifier \/ MatchesByName(list[k], identifier)}
    IN  IF name \notin DOMAIN c.Groups
        THEN [cfg |-> c, removed |-> "", err |-> <<"group '" \o name \o "' not found">>]
        ELSE IF any # {}
             THEN [cfg |-> Config(c.Days,
                               WithGroup(c.Groups, name, RemoveAt(list, First(any)))),
                   removed |-> list[First(any)], err |-> NoError]
             ELSE [cfg |-> c, removed |-> "",
                   err |-> <<"repository '" \o identifier \o "' not found in group '"
                                \o name \o "'">>]

\* Config.RemoveRepo(repoIdentifier, groupName): the configuration
\* afterwards, the string removed and the error.
RemoveRepo(c, identifier, name) ==
    LET list == ReposOf(c, name)
        exact == {k \in 1 .. Len(list) : list[k] = identifier}
        named == {k \in 1 .. Len(list) : MatchesByName(list[k], identifier)}
    IN  IF name \notin DOMAIN c.Groups
        THEN [cfg |-> c, removed |-> "", err |-> <<"group '" \o name \o "' not found">>]
        ELSE IF exact # {}
             THEN [cfg |-> Config(c.Days,
                               WithGroup(c.Groups, name, RemoveAt(list, First(exact)))),
                   removed |-> list[First(exact)], err |-> NoError]
             ELSE IF named # {}
                  THEN [cfg |-> Config(c.Days,
                                    WithGroup(c.Groups, name, RemoveAt(list, First(named)))),
                        removed |-> list[First(named)], err |-> NoError]
                  ELSE [cfg |-> c, removed |-> "",
                        err |-> <<"repository '" \o identifier \o "' not found in group '"
                                     \o name \o "'">>]

----------------------------------------------------------------------------
(* cmd/repomon: the commands run, list, add and rm.  Each one loads the    *)
(* configuration file, works on the Config and, for add and rm, saves it.  *)
(* The file is taken to exist and to parse.                                *)

\* The --days flag: not given, or given with a value.
FlagDays ==
    {[given |-> FALSE, value |-> 1]} \cup
    {[given |-> TRUE, value |-> v] : v \in {-1, 0, 1, 2}}

\* The values of --group: not given, or a name.
GroupFlags == {"", "work"}

\* What the rm command is asked to remove.
Identifiers == RepoStrings \cup {"app#dev", "other"}

\* runOpts.days: the flag's value, or its default when it is not given.
FlagValue(given, value) == IF given THEN value ELSE 1

\* The days executeRun leaves in cfg.Days and hands to SetDays.
Lookback(c, runDays) ==
    IF runDays # 1 \/ c.Days = 0
    THEN IF runDays # 1 THEN runDays ELSE 1
    ELSE c.Days

\* requestedGroupName
Requested(group) == IF group = "" THEN "default" ELSE group

Returns(op, arg, out, saved, err) ==
    [op |-> op, arg |-> arg, out |-> out, saved |-> saved, err |-> err]

\* repomon run [-d value] [-g group], up to monitor.SetDays.
executeRun(given, value, group) ==
    LET c == Config(Lookback(Load(disk), FlagValue(given, value)), Load(disk).Groups)
        got == GetRepos(c, Requested(group))
    IN  /\ cfg' = c
        /\ days' = IF got.err = NoError THEN c.Days ELSE days
        /\ call' = Returns("run", [given |-> given, value |-> value, group |-> group],
                           [repos |-> got.repos, group |-> got.group],
                           FALSE,
                           IF got.err = NoError THEN NoError
                           ELSE Wrap("failed to get repositories", got.err))
        /\ UNCHANGED <<disk, msgVars>>
        /\ UNCHANGED <<repos, now, cancelled, mainPc, next, pc, results, sem, wg, bar,
                       scratch, ops, fetched, cutoffOf, tempDir, dirs, writers, ret>>

\* repomon list [-g group]
executeList(group) ==
    LET c == Load(disk)
        got == GetRepos(c, Requested(group))
    IN  /\ cfg' = c
        /\ call' = Returns("list", [group |-> group],
                           [repos |-> got.repos, group |-> got.group],
                           FALSE,
                           IF got.err = NoError THEN NoError
                           ELSE Wrap("failed to get repositories", got.err))
        /\ UNCHANGED <<disk, msgVars, monitorVars>>

\* A command that saves whatever AddRepo said.
SavesAfterAddAlways(err) == TRUE

\* executeAdd goes on to cfg.Save only when AddRepo returned no error.
SavesAfterAdd(err) == err = NoError

\* repomon add repoStr [-g group]
executeAdd(repoStr, group) ==
    LET added == AddRepo(Load(disk), repoStr, Requested(group)) IN
    /\ \/ Len(ReposOf(disk, Requested(group))) < MaxGroupLen
       \/ Has(ReposOf(disk, Requested(group)), repoStr)
    /\ cfg' = added.cfg
    /\ disk' = IF SavesAfterAdd(added.err) THEN Save(added.cfg) ELSE disk
    /\ call' = Returns("add", [repo |-> repoStr, group |-> group],
                       [repos |-> ReposOf(added.cfg, Requested(group)),
                        group |-> Requested(group)],
                       SavesAfterAdd(added.err),
                       IF added.err = NoError THEN NoError
                       ELSE Wrap("failed to add repository", added.err))
    /\ UNCHANGED <<msgVars, monitorVars>>

\* repomon rm identifier [-g group] [-f]; agreed: the flag --force is
\* given, or the answer to the prompt is y or yes.
executeRm(identifier, group, agreed) ==
    LET removal == RemoveRepo(Load(disk), identifier, Requested(group)) IN
    /\ cfg' = IF agreed THEN removal.cfg ELSE Load(disk)
    /\ disk' = IF agreed /\ removal.err = NoError THEN Save(removal.cfg) ELSE disk
    /\ call' = Returns("rm", [identifier |-> identifier, group |-> group, agreed |-> agreed],
                       [repos |-> IF agreed THEN ReposOf(removal.cfg, Requested(group))
                                  ELSE ReposOf(disk, Requested(group)),
                        group |-> Requested(group),
                        removed |-> IF agreed THEN removal.removed ELSE ""],
                       agreed /\ removal.err = NoError,
                       IF agreed /\ removal.err # NoError
                       THEN Wrap("failed to remove repository", removal.err)
                       ELSE NoError)
    /\ UNCHANGED <<msgVars, monitorVars>>

InitCli ==
    /\ MonitorEntry(<<>>)
    /\ MsgIdle
    /\ disk \in StartConfigs
    /\ cfg = EmptyConfig
    /\ call = NoCall

NextCli ==
    \/ \E flag \in FlagDays, group \in GroupFlags :
          executeRun(flag.given, flag.value, group)
    \/ \E group \in GroupFlags : executeList(group)
    \/ \E repoStr \in RepoStrings, group \in GroupFlags : executeAdd(repoStr, group)
    \/ \E identifier \in Identifiers, group \in GroupFlags, agreed \in BOOLEAN :
          executeRm(identifier, group, agreed)

SpecCli == InitCli /\ [][NextCli]_vars

----------------------------------------------------------------------------
(* Properties of the commands and of the configuration.                    *)

\* C24: the lookback handed to the monitor is at least 1 whatever the
\* configuration and the --days flag, a value of 0 or none being made 1
\* before SetDays; and the Config a successful Load returns has a positive
\* Days.
C24_LookbackAtLeastOne ==
    /\ (call.op = "run" /\ call.err = NoError) => days >= 1
    /\ call.op \in {"list", "add", "rm"} => Load(disk).Days >= 1

\* C25: a --days flag given on the command line is the lookback of that
\* run, whatever the configuration file says; without the flag the
\* lookback is the days value of the configuration.
C25_DaysFlagOverrides ==
    (call.op = "run" /\ call.err = NoError) =>
        days = IF call.arg.given THEN call.arg.value ELSE Load(disk).Days

C27_AddAppendsOrRefuses ==
    [][call'.op = "add" =>
          LET before == Load(disk)
              name == Requested(call'.arg.group)
              repoStr == call'.arg.repo
          IN  IF Has(ReposOf(before, name), repoStr)
              THEN /\ call'.err # NoError
                   /\ cfg' = before
                   /\ ~call'.saved
                   /\ disk' = disk
              ELSE /\ call'.err = NoError
                   /\ cfg'.Days = before.Days
                   /\ cfg'.Groups = WithGroup(before.Groups, name,
                                              Append(ReposOf(before, name), repoStr))
                   /\ call'.saved
                   /\ disk' = Save(cfg')]_vars

C27_Witness ==
    /\ call.op = "add"
    /\ call.arg.repo = "app"
    /\ call.arg.group = ""
    /\ call.err # NoError
    /\ ~call.saved
    /\ disk.Groups["default"] = <<"/w/app", "app">>

\* C28: RemoveRepo removes exactly one entry of the named group and returns
\* it, the others keeping their order; an entry equal to the identifier is
\* preferred to one that matches by short name or name#branch only, also
\* when that one comes earlier; when the group does not exist or nothing
\* matches it returns an error and leaves the configuration as it was.
C28_RemovePrefersExactMatch ==
    [][(call'.op = "rm" /\ call'.arg.agreed) =>
          LET before == Load(disk)
              name == Requested(call'.arg.group)
              identifier == call'.arg.identifier
              list == ReposOf(before, name)
              matching == {k \in 1 .. Len(list) :
                              list[k] = identifier \/ MatchesByName(list[k], identifier)}
          IN  IF name \notin DOMAIN before.Groups \/ matching = {}
              THEN /\ call'.err # NoError
                   /\ cfg' = before
                   /\ disk' = disk
              ELSE /\ call'.err = NoError
                   /\ \E k \in matching :
                         /\ call'.out.removed = list[k]
                         /\ cfg'.Groups = WithGroup(before.Groups, name, RemoveAt(list, k))
                         /\ (\E j \in 1 .. Len(list) : list[j] = identifier) =>
                                list[k] = identifier
                   /\ cfg'.Days = before.Days
                   /\ disk' = Save(cfg')]_vars

C28_Witness ==
    /\ call.op = "rm"
    /\ call.arg.identifier = "app"
    /\ call.arg.group = ""
    /\ call.err = NoError
    /\ call.out.removed = "app"
    /\ disk.Groups["default"] = <<"/w/app">>

----------------------------------------------------------------------------
(* Properties of what the goroutines share.                                 *)

\* C29: the result list has one slot per descriptor before any goroutine
\* starts; each slot is written once, by the goroutine of its index only,
\* and not changed afterwards, so that no two goroutines write the same
\* slot; a slot written before a cancellation keeps its result.
C29_SlotsWrittenOnceByOwner ==
    /\ [](/\ Len(results) = Len(repos)
          /\ \A k \in 1 .. Len(repos) :
                /\ writers[k] \in {<<>>, <<k>>}
                /\ writers[k] = <<>> => results[k] = ZeroResult
                /\ writers[k] = <<>> <=> pc[k] \in {"idle", "queued", "fetching", "cloned"})
    /\ [][\A k \in 1 .. Len(repos) :
             /\ writers[k] # <<>> => results'[k] = results[k]
             /\ results'[k] # results[k] =>
                   /\ pc[k] \in {"fetching", "cloned"}
                   /\ pc'[k] = "stored"
                   /\ \A j \in 1 .. Len(repos) : j # k => results'[j] = results[j]]_vars

C29_Witness ==
    /\ Returned
    /\ cancelled
    /\ Len(repos) = 2
    /\ IsRemote(repos[1])
    /\ IsRemote(repos[2])
    /\ writers = <<<<1>>, <<2>>>>
    /\ ret.results[1].Error = NoError
    /\ ret.results[2].Error # NoError

\* C30: every remote fetch makes a scratch directory of its own: no two
\* goroutines at work hold the same scratch directory, the directory a
\* goroutine holds exists until that goroutine removes it, and no goroutine
\* removes the directory of another, also when descriptors have the same
\* URL.
C30_OwnScratchDirectory ==
    /\ [](\A i \in 1 .. Len(repos) :
             IF pc[i] = "cloned"
             THEN /\ tempDir[i] \in dirs
                  /\ \A j \in 1 .. Len(repos) :
                        (j # i /\ pc[j] = "cloned") => tempDir[j] # tempDir[i]
             ELSE tempDir[i] = 0)
    /\ [][\A dir \in dirs \ dirs' :
             \E i \in 1 .. Len(repos) :
                /\ pc[i] = "cloned"
                /\ tempDir[i] = dir
                /\ pc'[i] = "stored"]_vars

C30_Witness ==
    /\ Len(repos) = 2
    /\ repos[1].URL # ""
    /\ repos[1].URL = repos[2].URL
    /\ pc[1] = "cloned"
    /\ pc[2] = "cloned"
    /\ tempDir[1] \in dirs
    /\ tempDir[2] \in dirs
    /\ tempDir[1] # tempDir[2]

----------------------------------------------------------------------------
(* Properties of the one-line message.                                      *)

----------------------------------------------------------------------------
(* Properties of the local path and of the order in which a goroutine      *)
(* finishes.                                                               *)

\* The operations that read a directory and leave it as it is.
ReadingOps == {"Stat", "PlainOpen", "Head", "Reference", "Log", "ForEach"}

\* The number of times op is among the operations made.
Times(made, op) == Cardinality({k \in 1 .. Len(made) : made[k] = op})

\* C31: getRepoCommits removes only the scratch directories it has made
\* itself: the fetch of a descriptor without a URL makes no scratch
\* directory, only reads its Path (no copy, no change, no removal) whether
\* it succeeds or fails, and leaves the scratch directories of the others
\* alone; a fetch with a URL removes no more than the one directory it made.
C31_LocalPathLeftAlone ==
    /\ [](\A i \in 1 .. Len(repos) :
             IF IsRemote(repos[i])
             THEN /\ Times(ops[i], "RemoveAll") <= Times(ops[i], "MkdirTemp")
                  /\ Times(ops[i], "MkdirTemp") <= 1
                  /\ ~Did(ops[i], "Stat")
             ELSE /\ \A k \in 1 .. Len(ops[i]) : ops[i][k] \in ReadingOps
                  /\ scratch[i] = "none"
                  /\ tempDir[i] = 0)
    /\ [][\A i \in 1 .. Len(repos) :
             (~IsRemote(repos[i]) /\ pc'[i] # pc[i]) => dirs' = dirs]_vars

C31_Witness ==
    /\ Returned
    /\ Len(repos) = 2
    /\ repos[1] = LocalApp
    /\ repos[2] = NotGit
    /\ ops[1] = <<"Stat", "PlainOpen", "Head", "Log", "ForEach">>
    /\ ops[2] = <<"Stat", "PlainOpen">>
    /\ ret.results[1].Error = NoError
    /\ ret.results[1].Commits # <<>>
    /\ ret.results[2].Error # NoError
    /\ dirs = {}

\* C32: a goroutine finishes in one order: it stores its result in its
\* slot while it still holds its place in sem, then gives the place back,
\* then advances the bar, then calls wg.Done(); so wg counts a goroutine as
\* finished only when its result is stored and its place given back.
C32_FinishOrder ==
    /\ [](/\ wg = Cardinality({i \in 1 .. Len(repos) :
                     pc[i] \in {"queued", "fetching", "cloned", "stored",
                                "released", "advanced"}})
          /\ \A i \in 1 .. Len(repos) :
                pc[i] = "done" => (writers[i] = <<i>> /\ results[i].Repo = repos[i]))
    /\ [][\A i \in 1 .. Len(repos) :
             pc'[i] # pc[i] =>
                /\ results'[i] # results[i] =>
                      /\ pc[i] \in {"fetching", "cloned"}
                      /\ sem > 0 /\ sem' = sem /\ bar' = bar /\ wg' = wg
                /\ sem' < sem =>
                      /\ pc[i] = "stored"
                      /\ writers[i] = <<i>>
                      /\ results' = results /\ bar' = bar /\ wg' = wg
                /\ bar' > bar =>
                      /\ pc[i] = "released"
                      /\ results' = results /\ sem' = sem /\ wg' = wg
                /\ wg' < wg =>
                      /\ pc[i] = "advanced"
                      /\ results' = results /\ sem' = sem /\ bar' = bar]_vars

C32_Witness ==
    /\ Len(repos) = 2
    /\ pc = <<"done", "released">>
    /\ writers = <<<<1>>, <<2>>>>
    /\ sem = 0
    /\ bar = 1
    /\ wg = 1
    /\ mainPc = "wait"

----------------------------------------------------------------------------
(* Properties of sequences of add and rm.                                   *)

\* No string is in the list twice.
NoDuplicates(list) ==
    \A j, k \in 1 .. Len(list) : list[j] = list[k] => j = k

\* C33: from a configuration in which no group lists a repository string
\* twice, after any sequence of AddRepo and RemoveRepo calls, failed ones
\* included, no group lists a repository string twice.
C33_NoDuplicateStrings ==
    /\ \A g \in DOMAIN disk.Groups : NoDuplicates(disk.Groups[g])
    /\ \A g \in DOMAIN cfg.Groups : NoDuplicates(cfg.Groups[g])

C33_Witness ==
    /\ call.op = "add"
    /\ call.arg.repo = "/w/app"
    /\ call.err # NoError
    /\ "default" \in DOMAIN disk.Groups
    /\ disk.Groups["default"] = <<"app", "/w/app">>
    /\ "work" \in DOMAIN disk.Groups
    /\ disk.Groups["work"] = <<"/r/app#dev", "app">>

============================================================================
